---- MODULE Spec2Model ----
(***************************************************************************)
(* Spirix exceptional-value encoding for GPU kernels                       *)
(* (src/src/gpu/spirix_constants.h): the literal catalog, the detection    *)
(* helpers, the creation helpers and spirix_gpu_safe_divide, as operators  *)
(* over int16_t values, and a kernel lane that loads operands, calls the   *)
(* helpers and chains results.                                             *)
(***************************************************************************)
EXTENDS Integers, FiniteSets, Sequences, TLC

(* ------------------------------------------------------------------ *)
(* Bounds of the model                                                 *)
(* ------------------------------------------------------------------ *)

\* Normal (non-sentinel) exponents a lane draws: 0 .. MaxExp.
MaxExp == 0

\* Small fraction values a lane draws: 1 .. MaxFrac.
MaxFrac == 1

(* ------------------------------------------------------------------ *)
(* int16_t / uint16_t                                                  *)
(* ------------------------------------------------------------------ *)

\* Value of a 0b... literal, most significant bit first.
RECURSIVE Bin(_)
Bin(bits) ==
    IF Len(bits) = 0 THEN 0
    ELSE 2 * Bin(SubSeq(bits, 1, Len(bits) - 1)) + bits[Len(bits)]

\* (int16_t)x: the 16-bit two's complement value of x.
ToInt16(x) ==
    LET u == x % 65536 IN IF u >= 32768 THEN u - 65536 ELSE u

\* (uint16_t)x
ToUint16(x) == x % 65536

\* Every int16_t value.
Int16 == (-32768) .. 32767

(* ------------------------------------------------------------------ *)
(* Literals                                                            *)
(* ------------------------------------------------------------------ *)

SPIRIX_AMBIGUOUS_EXPONENT == ToInt16(Bin(<<1,0,0,0,0,0,0,0,0,0,0,0,0,0,0,0>>))

SPIRIX_ZERO_FRACTION == ToInt16(Bin(<<0,0,0,0,0,0,0,0,0,0,0,0,0,0,0,0>>))

SPIRIX_INFINITY_FRACTION == ToInt16(Bin(<<1,1,1,1,1,1,1,1,1,1,1,1,1,1,1,1>>))

SPIRIX_VANISHED_POS_PREFIX == ToInt16(Bin(<<0,0,1,0,0,0,0,0,0,0,0,0,0,0,0,0>>))

SPIRIX_VANISHED_NEG_PREFIX == ToInt16(Bin(<<1,1,0,1,1,1,1,1,1,1,1,1,1,1,1,1>>))

SPIRIX_UNDEF_TRANSFINITE_PLUS_TRANSFINITE == ToInt16(Bin(<<0,0,0,1,1,1,1,1,0,0,0,0,0,0,0,0>>))

SPIRIX_UNDEF_TRANSFINITE_MINUS_TRANSFINITE == ToInt16(Bin(<<1,1,1,0,0,0,0,0,0,0,0,0,0,0,0,0>>))

SPIRIX_UNDEF_VANISHED_PLUS_VANISHED == ToInt16(Bin(<<0,0,0,1,1,1,1,0,0,0,0,0,0,0,0,0>>))

SPIRIX_UNDEF_VANISHED_MINUS_VANISHED == ToInt16(Bin(<<1,1,1,0,0,0,0,1,0,0,0,0,0,0,0,0>>))

SPIRIX_UNDEF_TRANSFINITE_PLUS_FINITE == ToInt16(Bin(<<0,0,0,1,1,1,0,0,0,0,0,0,0,0,0,0>>))

SPIRIX_UNDEF_TRANSFINITE_MINUS_FINITE == ToInt16(Bin(<<1,1,1,0,0,0,1,1,0,0,0,0,0,0,0,0>>))

SPIRIX_UNDEF_FINITE_PLUS_TRANSFINITE == ToInt16(Bin(<<0,0,0,1,1,0,0,0,0,0,0,0,0,0,0,0>>))

SPIRIX_UNDEF_FINITE_MINUS_TRANSFINITE == ToInt16(Bin(<<1,1,1,0,0,1,1,1,0,0,0,0,0,0,0,0>>))

SPIRIX_UNDEF_TRANSFINITE_DIV_TRANSFINITE == ToInt16(Bin(<<0,0,0,1,0,1,1,0,0,0,0,0,0,0,0,0>>))

SPIRIX_UNDEF_NEGLIGIBLE_DIV_NEGLIGIBLE == ToInt16(Bin(<<1,1,1,0,1,0,0,1,0,0,0,0,0,0,0,0>>))

SPIRIX_UNDEF_NEGLIGIBLE_MUL_TRANSFINITE == ToInt16(Bin(<<0,0,0,1,0,0,0,0,0,0,0,0,0,0,0,0>>))

SPIRIX_UNDEF_TRANSFINITE_MUL_NEGLIGIBLE == ToInt16(Bin(<<1,1,1,0,1,1,1,1,0,0,0,0,0,0,0,0>>))

SPIRIX_UNDEF_SIGN_INDETERMINATE == ToInt16(Bin(<<1,1,1,0,0,1,0,0,0,0,0,0,0,0,0,0>>))

SPIRIX_UNDEF_TRANSFINITE_POWER == ToInt16(Bin(<<0,0,0,0,1,1,1,1,0,0,0,0,0,0,0,0>>))

SPIRIX_UNDEF_NEGLIGIBLE_POWER == ToInt16(Bin(<<1,1,1,1,0,0,0,0,0,0,0,0,0,0,0,0>>))

SPIRIX_UNDEF_POWER_TRANSFINITE == ToInt16(Bin(<<0,0,0,0,1,1,1,0,0,0,0,0,0,0,0,0>>))

SPIRIX_UNDEF_POWER_NEGLIGIBLE == ToInt16(Bin(<<1,1,1,1,0,0,0,1,0,0,0,0,0,0,0,0>>))

SPIRIX_UNDEF_NEGATIVE_POWER == ToInt16(Bin(<<0,0,0,0,1,1,0,1,0,0,0,0,0,0,0,0>>))

\* A variant of the next literal: the bit pattern of SPIRIX_UNDEF_NEGLIGIBLE_POWER
\* copied to it.
SPIRIX_UNDEF_SQRT_NEGATIVE_copied == SPIRIX_UNDEF_NEGLIGIBLE_POWER

SPIRIX_UNDEF_SQRT_NEGATIVE == ToInt16(Bin(<<1,1,1,1,0,1,1,0,0,0,0,0,0,0,0,0>>))

SPIRIX_UNDEF_GENERAL == ToInt16(Bin(<<1,1,1,1,1,1,1,0,0,0,0,0,0,0,0,0>>))

\* The named SPIRIX_UNDEF_* literals, in the order of the header.
UndefCatalog ==
    << SPIRIX_UNDEF_TRANSFINITE_PLUS_TRANSFINITE,
       SPIRIX_UNDEF_TRANSFINITE_MINUS_TRANSFINITE,
       SPIRIX_UNDEF_VANISHED_PLUS_VANISHED,
       SPIRIX_UNDEF_VANISHED_MINUS_VANISHED,
       SPIRIX_UNDEF_TRANSFINITE_PLUS_FINITE,
       SPIRIX_UNDEF_TRANSFINITE_MINUS_FINITE,
       SPIRIX_UNDEF_FINITE_PLUS_TRANSFINITE,
       SPIRIX_UNDEF_FINITE_MINUS_TRANSFINITE,
       SPIRIX_UNDEF_TRANSFINITE_DIV_TRANSFINITE,
       SPIRIX_UNDEF_NEGLIGIBLE_DIV_NEGLIGIBLE,
       SPIRIX_UNDEF_NEGLIGIBLE_MUL_TRANSFINITE,
       SPIRIX_UNDEF_TRANSFINITE_MUL_NEGLIGIBLE,
       SPIRIX_UNDEF_SIGN_INDETERMINATE,
       SPIRIX_UNDEF_TRANSFINITE_POWER,
       SPIRIX_UNDEF_NEGLIGIBLE_POWER,
       SPIRIX_UNDEF_POWER_TRANSFINITE,
       SPIRIX_UNDEF_POWER_NEGLIGIBLE,
       SPIRIX_UNDEF_NEGATIVE_POWER,
       SPIRIX_UNDEF_SQRT_NEGATIVE,
       SPIRIX_UNDEF_GENERAL >>

(* ------------------------------------------------------------------ *)
(* Detection helpers                                                   *)
(* ------------------------------------------------------------------ *)

\* (uint16_t)fraction >> 13
Top3(fraction) == ToUint16(fraction) \div 8192

\* A variant of spirix_is_zero that does not compare the exponent.
spirix_is_zero_any_exponent(fraction, exponent) ==
    fraction = SPIRIX_ZERO_FRACTION

spirix_is_zero(fraction, exponent) ==
    fraction = SPIRIX_ZERO_FRACTION /\ exponent = SPIRIX_AMBIGUOUS_EXPONENT

spirix_is_infinity(fraction, exponent) ==
    fraction = SPIRIX_INFINITY_FRACTION /\ exponent = SPIRIX_AMBIGUOUS_EXPONENT

\* A variant of spirix_is_undefined that does not exclude the Zero and
\* Infinity literals.
spirix_is_undefined_no_exclusion(fraction, exponent) ==
    IF exponent # SPIRIX_AMBIGUOUS_EXPONENT THEN FALSE
    ELSE LET top3 == Top3(fraction) IN
         top3 = Bin(<<0,0,0>>) \/ top3 = Bin(<<1,1,1>>)

spirix_is_undefined(fraction, exponent) ==
    IF exponent # SPIRIX_AMBIGUOUS_EXPONENT THEN FALSE
    ELSE LET top3 == Top3(fraction) IN
         /\ (top3 = Bin(<<0,0,0>>) \/ top3 = Bin(<<1,1,1>>))
         /\ fraction # SPIRIX_ZERO_FRACTION
         /\ fraction # SPIRIX_INFINITY_FRACTION

spirix_is_finite(fraction, exponent) ==
    IF exponent = SPIRIX_AMBIGUOUS_EXPONENT
    THEN /\ ~spirix_is_zero(fraction, exponent)
         /\ ~spirix_is_infinity(fraction, exponent)
         /\ ~spirix_is_undefined(fraction, exponent)
    ELSE TRUE

\* The Vanished tag of the header's prefix literals (□□■xxxxx / ■■□xxxxx):
\* the top 3 bits of the fraction are those of one of the two prefixes.
\* The header defines no such predicate; this one reads its two literals.
is_vanished(fraction, exponent) ==
    /\ exponent = SPIRIX_AMBIGUOUS_EXPONENT
    /\ \/ Top3(fraction) = Top3(SPIRIX_VANISHED_POS_PREFIX)
       \/ Top3(fraction) = Top3(SPIRIX_VANISHED_NEG_PREFIX)

(* ------------------------------------------------------------------ *)
(* Creation helpers: each maps the pointed-to output fields to their   *)
(* contents after the call.                                            *)
(* ------------------------------------------------------------------ *)

spirix_create_zero(fraction, exponent) ==
    [frac |-> SPIRIX_ZERO_FRACTION, exp |-> SPIRIX_AMBIGUOUS_EXPONENT]

\* A variant of spirix_create_infinity that does not store the exponent.
spirix_create_infinity_fraction_only(fraction, exponent, positive) ==
    [frac |-> SPIRIX_INFINITY_FRACTION, exp |-> exponent]

\* `positive` is accepted and not read.
spirix_create_infinity(fraction, exponent, positive) ==
    [frac |-> SPIRIX_INFINITY_FRACTION, exp |-> SPIRIX_AMBIGUOUS_EXPONENT]

spirix_create_undefined(fraction, exponent) ==
    [frac |-> SPIRIX_UNDEF_GENERAL, exp |-> SPIRIX_AMBIGUOUS_EXPONENT]

spirix_create_undefined_zero_div_zero(fraction, exponent) ==
    [frac |-> SPIRIX_UNDEF_NEGLIGIBLE_DIV_NEGLIGIBLE, exp |-> SPIRIX_AMBIGUOUS_EXPONENT]

spirix_create_undefined_inf_minus_inf(fraction, exponent) ==
    [frac |-> SPIRIX_UNDEF_TRANSFINITE_MINUS_TRANSFINITE, exp |-> SPIRIX_AMBIGUOUS_EXPONENT]

\* A variant of spirix_create_undefined_inf_times_zero that stores the
\* mirrored literal.
spirix_create_undefined_inf_times_zero_mirrored(fraction, exponent) ==
    [frac |-> SPIRIX_UNDEF_NEGLIGIBLE_MUL_TRANSFINITE, exp |-> SPIRIX_AMBIGUOUS_EXPONENT]

spirix_create_undefined_inf_times_zero(fraction, exponent) ==
    [frac |-> SPIRIX_UNDEF_TRANSFINITE_MUL_NEGLIGIBLE, exp |-> SPIRIX_AMBIGUOUS_EXPONENT]

(* ------------------------------------------------------------------ *)
(* spirix_gpu_safe_divide                                              *)
(* ------------------------------------------------------------------ *)

\* The return statement a call of spirix_gpu_safe_divide leaves by:
\* the rows of the decision table, and the fall-through to the division
\* the kernel implements itself.
RowZeroDivZero == "0/0"
RowInfDivInf == "inf/inf"
RowDivByZero == "x/0"
RowZeroDividend == "0/x"
RowDeferred == "deferred"

\* A variant of spirix_gpu_safe_divide that tests the single-Zero rows
\* before the 0/0 row.
spirix_gpu_safe_divide_zero_rows_first(a_frac, a_exp, b_frac, b_exp, result_frac, result_exp, result_exponent) ==
    LET a_is_zero == spirix_is_zero(a_frac, a_exp)
        b_is_zero == spirix_is_zero(b_frac, b_exp)
        a_is_inf == spirix_is_infinity(a_frac, a_exp)
        b_is_inf == spirix_is_infinity(b_frac, b_exp)
    IN  IF b_is_zero /\ ~a_is_zero
        THEN [frac |-> SPIRIX_INFINITY_FRACTION, exp |-> SPIRIX_AMBIGUOUS_EXPONENT,
              result_exponent |-> result_exponent, row |-> RowDivByZero]
        ELSE IF a_is_zero
        THEN [frac |-> SPIRIX_ZERO_FRACTION, exp |-> SPIRIX_AMBIGUOUS_EXPONENT,
              result_exponent |-> result_exponent, row |-> RowZeroDividend]
        ELSE IF a_is_zero /\ b_is_zero
        THEN [frac |-> SPIRIX_UNDEF_NEGLIGIBLE_DIV_NEGLIGIBLE, exp |-> SPIRIX_AMBIGUOUS_EXPONENT,
              result_exponent |-> result_exponent, row |-> RowZeroDivZero]
        ELSE IF a_is_inf /\ b_is_inf
        THEN [frac |-> SPIRIX_UNDEF_TRANSFINITE_DIV_TRANSFINITE, exp |-> result_exp,
              result_exponent |-> SPIRIX_AMBIGUOUS_EXPONENT, row |-> RowInfDivInf]
        ELSE [frac |-> result_frac, exp |-> result_exp,
              result_exponent |-> result_exponent, row |-> RowDeferred]

\* A variant of spirix_gpu_safe_divide whose inf/inf row tests
\* a_is_inf || b_is_inf.
spirix_gpu_safe_divide_either_inf(a_frac, a_exp, b_frac, b_exp, result_frac, result_exp, result_exponent) ==
    LET a_is_zero == spirix_is_zero(a_frac, a_exp)
        b_is_zero == spirix_is_zero(b_frac, b_exp)
        a_is_inf == spirix_is_infinity(a_frac, a_exp)
        b_is_inf == spirix_is_infinity(b_frac, b_exp)
    IN  IF a_is_zero /\ b_is_zero
        THEN [frac |-> SPIRIX_UNDEF_NEGLIGIBLE_DIV_NEGLIGIBLE, exp |-> SPIRIX_AMBIGUOUS_EXPONENT,
              result_exponent |-> result_exponent, row |-> RowZeroDivZero]
        ELSE IF a_is_inf \/ b_is_inf
        THEN [frac |-> SPIRIX_UNDEF_TRANSFINITE_DIV_TRANSFINITE, exp |-> result_exp,
              result_exponent |-> SPIRIX_AMBIGUOUS_EXPONENT, row |-> RowInfDivInf]
        ELSE IF b_is_zero /\ ~a_is_zero
        THEN [frac |-> SPIRIX_INFINITY_FRACTION, exp |-> SPIRIX_AMBIGUOUS_EXPONENT,
              result_exponent |-> result_exponent, row |-> RowDivByZero]
        ELSE IF a_is_zero
        THEN [frac |-> SPIRIX_ZERO_FRACTION, exp |-> SPIRIX_AMBIGUOUS_EXPONENT,
              result_exponent |-> result_exponent, row |-> RowZeroDividend]
        ELSE [frac |-> result_frac, exp |-> result_exp,
              result_exponent |-> result_exponent, row |-> RowDeferred]

\* result_frac and result_exp are the contents of the caller's two output
\* fields before the call; the record holds their contents after it, the
\* row taken, and the object the inf/inf row's second store goes to.
\* That store names `result_exponent`, which is no parameter of the
\* function (the parameter is result_exp): the header compiles only where
\* the including kernel declares such a pointer itself, and the store then
\* goes to that object and never to *result_exp.
spirix_gpu_safe_divide(a_frac, a_exp, b_frac, b_exp, result_frac, result_exp, result_exponent) ==
    LET a_is_zero == spirix_is_zero(a_frac, a_exp)
        b_is_zero == spirix_is_zero(b_frac, b_exp)
        a_is_inf == spirix_is_infinity(a_frac, a_exp)
        b_is_inf == spirix_is_infinity(b_frac, b_exp)
    IN  IF a_is_zero /\ b_is_zero
        THEN LET r == spirix_create_undefined_zero_div_zero(result_frac, result_exp)
             IN  [frac |-> r.frac, exp |-> r.exp,
                  result_exponent |-> result_exponent, row |-> RowZeroDivZero]
        ELSE IF a_is_inf /\ b_is_inf
        THEN [frac |-> SPIRIX_UNDEF_TRANSFINITE_DIV_TRANSFINITE, exp |-> result_exp,
              result_exponent |-> SPIRIX_AMBIGUOUS_EXPONENT, row |-> RowInfDivInf]
        ELSE IF b_is_zero /\ ~a_is_zero
        THEN LET r == spirix_create_infinity(result_frac, result_exp, 1)
             IN  [frac |-> r.frac, exp |-> r.exp,
                  result_exponent |-> result_exponent, row |-> RowDivByZero]
        ELSE IF a_is_zero
        THEN LET r == spirix_create_zero(result_frac, result_exp)
             IN  [frac |-> r.frac, exp |-> r.exp,
                  result_exponent |-> result_exponent, row |-> RowZeroDividend]
        ELSE [frac |-> result_frac, exp |-> result_exp,
              result_exponent |-> result_exponent, row |-> RowDeferred]

(* ------------------------------------------------------------------ *)
(* A kernel lane                                                       *)
(* ------------------------------------------------------------------ *)

VARIABLES
    a,      \* operand a: [frac, exp]
    b,      \* operand b: [frac, exp]
    out,    \* the caller's output fields: [frac, exp]
    kernel_result_exponent, \* the object `result_exponent` names in the kernel
    op,     \* the helper called last
    row,    \* the row of the spirix_gpu_safe_divide call whose outcome out holds
    sign_arg, \* the `positive` argument of the last spirix_create_infinity call
    cls     \* the detection helpers' answers for operand a

vars == <<a, b, out, kernel_result_exponent, op, row, sign_arg, cls>>

Pair(f, e) == [frac |-> f, exp |-> e]

\* Exponents a lane draws: the sentinel and the normal exponents 0 .. MaxExp.
ExpSamples == {SPIRIX_AMBIGUOUS_EXPONENT} \cup (0 .. MaxExp)

\* Fractions a lane draws: the Zero and Infinity literals, both Vanished
\* prefixes, an Undefined literal, a pattern of tag 010, and small values.
FracSamples ==
    {SPIRIX_ZERO_FRACTION, SPIRIX_INFINITY_FRACTION,
     SPIRIX_VANISHED_POS_PREFIX, SPIRIX_VANISHED_NEG_PREFIX,
     SPIRIX_UNDEF_TRANSFINITE_DIV_TRANSFINITE,
     ToInt16(Bin(<<0,1,0,0,0,0,0,0,0,0,0,0,0,0,0,0>>))}
    \cup (1 .. MaxFrac)

Operands == {Pair(f, e) : f \in FracSamples, e \in ExpSamples}

\* What the output fields may hold before the first call: anything.
PriorOut ==
    {Pair(f, e) : f \in {SPIRIX_INFINITY_FRACTION, MaxFrac},
                  e \in ExpSamples}

\* Arguments spirix_create_infinity is called with.
SignArgs == {-1, 0, 1}

Unclassified == [done |-> FALSE]

Init ==
    /\ a \in Operands
    /\ b \in Operands
    /\ out \in PriorOut
    /\ kernel_result_exponent \in 0 .. MaxExp
    /\ op = "none"
    /\ row = "none"
    /\ sign_arg = 0
    /\ cls = Unclassified

LoadA ==
    /\ \E v \in Operands : a' = v
    /\ op' = "load"
    /\ UNCHANGED <<b, out, kernel_result_exponent, row, sign_arg, cls>>

LoadB ==
    /\ \E v \in Operands : b' = v
    /\ op' = "load"
    /\ UNCHANGED <<a, out, kernel_result_exponent, row, sign_arg, cls>>

\* A helper that stores through both output pointers.
Created(name, r) ==
    /\ out' = Pair(r.frac, r.exp)
    /\ op' = name
    /\ row' = "none"
    /\ UNCHANGED <<a, b, kernel_result_exponent, cls>>

CreateZero ==
    /\ Created("spirix_create_zero", spirix_create_zero(out.frac, out.exp))
    /\ UNCHANGED sign_arg

CreateInfinity ==
    \E positive \in SignArgs :
        /\ Created("spirix_create_infinity",
                   spirix_create_infinity(out.frac, out.exp, positive))
        /\ sign_arg' = positive

CreateUndefined ==
    /\ Created("spirix_create_undefined", spirix_create_undefined(out.frac, out.exp))
    /\ UNCHANGED sign_arg

CreateUndefinedZeroDivZero ==
    /\ Created("spirix_create_undefined_zero_div_zero",
               spirix_create_undefined_zero_div_zero(out.frac, out.exp))
    /\ UNCHANGED sign_arg

CreateUndefinedInfMinusInf ==
    /\ Created("spirix_create_undefined_inf_minus_inf",
               spirix_create_undefined_inf_minus_inf(out.frac, out.exp))
    /\ UNCHANGED sign_arg

CreateUndefinedInfTimesZero ==
    /\ Created("spirix_create_undefined_inf_times_zero",
               spirix_create_undefined_inf_times_zero(out.frac, out.exp))
    /\ UNCHANGED sign_arg

\* spirix_gpu_safe_divide(a.frac, a.exp, b.frac, b.exp, &out.frac, &out.exp):
\* the operands are passed by value.
SafeDivide ==
    LET r == spirix_gpu_safe_divide(a.frac, a.exp, b.frac, b.exp,
                                    out.frac, out.exp, kernel_result_exponent)
    IN  /\ out' = Pair(r.frac, r.exp)
        /\ kernel_result_exponent' = r.result_exponent
        /\ row' = r.row
            /\ op' = "spirix_gpu_safe_divide"
        /\ UNCHANGED <<a, b, sign_arg, cls>>

\* The kernel feeds a result a dispatching call wrote into the next call.
Written == row \in {RowZeroDivZero, RowInfDivInf, RowDivByZero, RowZeroDividend}

ChainA ==
    /\ Written
    /\ a' = out
    /\ op' = "chain"
    /\ UNCHANGED <<b, out, kernel_result_exponent, row, sign_arg, cls>>

ChainB ==
    /\ Written
    /\ b' = out
    /\ op' = "chain"
    /\ UNCHANGED <<a, out, kernel_result_exponent, row, sign_arg, cls>>

Next ==
    \/ LoadA
    \/ LoadB
    \/ CreateZero
    \/ CreateInfinity
    \/ CreateUndefined
    \/ CreateUndefinedZeroDivZero
    \/ CreateUndefinedInfMinusInf
    \/ CreateUndefinedInfTimesZero
    \/ SafeDivide
    \/ ChainA
    \/ ChainB

Spec == Init /\ [][Next]_vars

(* ------------------------------------------------------------------ *)
(* Chained division over Zero and Infinity                             *)
(* ------------------------------------------------------------------ *)

\* The pairs spirix_create_zero and spirix_create_infinity give.
SpecialOperands ==
    {Pair(SPIRIX_ZERO_FRACTION, SPIRIX_AMBIGUOUS_EXPONENT),
     Pair(SPIRIX_INFINITY_FRACTION, SPIRIX_AMBIGUOUS_EXPONENT)}

InitChain ==
    /\ a \in SpecialOperands
    /\ b \in SpecialOperands
    /\ out \in PriorOut
    /\ kernel_result_exponent \in 0 .. MaxExp
    /\ op = "none"
    /\ row = "none"
    /\ sign_arg = 0
    /\ cls = Unclassified

LoadSpecialA ==
    /\ \E v \in SpecialOperands : a' = v
    /\ op' = "load"
    /\ UNCHANGED <<b, out, kernel_result_exponent, row, sign_arg, cls>>

LoadSpecialB ==
    /\ \E v \in SpecialOperands : b' = v
    /\ op' = "load"
    /\ UNCHANGED <<a, out, kernel_result_exponent, row, sign_arg, cls>>

NextChain ==
    \/ LoadSpecialA
    \/ LoadSpecialB
    \/ SafeDivide
    \/ ChainA
    \/ ChainB

SpecChain == InitChain /\ [][NextChain]_vars

(* ------------------------------------------------------------------ *)
(* The detection helpers over every fraction                           *)
(* ------------------------------------------------------------------ *)

\* Exponents the helpers are applied to: the sentinel, its neighbour,
\* the largest exponent, and -MaxExp .. MaxExp.
ClassifyExps ==
    {SPIRIX_AMBIGUOUS_EXPONENT, SPIRIX_AMBIGUOUS_EXPONENT + 1, -SPIRIX_AMBIGUOUS_EXPONENT - 1}
    \cup ((-MaxExp) .. MaxExp)

InitClassify ==
    /\ a \in {Pair(f, e) : f \in Int16, e \in ClassifyExps}
    /\ b = Pair(SPIRIX_ZERO_FRACTION, SPIRIX_AMBIGUOUS_EXPONENT)
    /\ out = Pair(SPIRIX_ZERO_FRACTION, SPIRIX_AMBIGUOUS_EXPONENT)
    /\ kernel_result_exponent = 0
    /\ op = "none"
    /\ row = "none"
    /\ sign_arg = 0
    /\ cls = Unclassified

\* The four detection helpers applied to operand a.
Classify ==
    /\ ~cls.done
    /\ cls' = [done |-> TRUE,
               is_zero |-> spirix_is_zero(a.frac, a.exp),
               is_infinity |-> spirix_is_infinity(a.frac, a.exp),
               is_undefined |-> spirix_is_undefined(a.frac, a.exp),
               is_finite |-> spirix_is_finite(a.frac, a.exp)]
    /\ op' = "classify"
    /\ UNCHANGED <<a, b, out, kernel_result_exponent, row, sign_arg>>

NextClassify == Classify

SpecClassify == InitClassify /\ [][NextClassify]_vars

(* ------------------------------------------------------------------ *)
(* Properties of the detection helpers (under SpecClassify)            *)
(* ------------------------------------------------------------------ *)

Sentinel(v) == v.exp = SPIRIX_AMBIGUOUS_EXPONENT

\* How many of Zero, Infinity, Vanished, Undefined the classified operand is.
CategoryCount ==
    Cardinality({k \in {"zero", "infinity", "vanished", "undefined"} :
        \/ k = "zero" /\ cls.is_zero
        \/ k = "infinity" /\ cls.is_infinity
        \/ k = "vanished" /\ is_vanished(a.frac, a.exp)
        \/ k = "undefined" /\ cls.is_undefined})

\* The tags 010, 011, 100 and 101.
MiddleTags == {Bin(<<0,1,0>>), Bin(<<0,1,1>>), Bin(<<1,0,0>>), Bin(<<1,0,1>>)}

\* C1 as stated: under the sentinel exponent every fraction satisfies exactly
\* one of is_zero, is_infinity, is_vanished, is_undefined.
C1_ExactlyOneCategory ==
    (cls.done /\ Sentinel(a)) => CategoryCount = 1

\* C1 amended: under the sentinel exponent no fraction satisfies two of
\* is_zero, is_infinity, is_vanished, is_undefined; a fraction satisfies
\* exactly one when its top 3 bits are 000, 001, 110 or 111 and none when
\* they are 010, 011, 100 or 101.
C1_AtMostOneCategory ==
    (cls.done /\ Sentinel(a)) =>
        CategoryCount = (IF Top3(a.frac) \in MiddleTags THEN 0 ELSE 1)

\* A sentinel-exponent fraction of tag 100 has been classified and is in
\* none of the four categories.
C1_Witness ==
    /\ cls.done
    /\ Sentinel(a)
    /\ Top3(a.frac) = Bin(<<1,0,0>>)
    /\ CategoryCount = 0

\* C6 as stated: a Vanished-tagged fraction under the sentinel exponent is
\* reported neither finite nor undefined.
C6_VanishedNotFinite ==
    (cls.done /\ is_vanished(a.frac, a.exp)) =>
        (~cls.is_finite /\ ~cls.is_undefined)

\* The indices of the catalog entries equal to fraction f.
CatalogIndices(f) == {i \in DOMAIN UndefCatalog : UndefCatalog[i] = f}

\* C7: the 20 catalog literals are pairwise distinct (no fraction is the
\* value of two entries, and each entry is some fraction); none is the
\* Zero literal, the Infinity literal or Vanished-tagged; each has tag 000
\* or 111 and low 8 bits zero; and each, under the sentinel exponent, is
\* reported undefined and not zero, infinity or finite.
C7_CatalogUnique ==
    /\ Cardinality(CatalogIndices(a.frac)) <= 1
    /\ CatalogIndices(a.frac) # {} =>
        /\ a.frac # SPIRIX_ZERO_FRACTION
        /\ a.frac # SPIRIX_INFINITY_FRACTION
        /\ ~is_vanished(a.frac, SPIRIX_AMBIGUOUS_EXPONENT)
        /\ Top3(a.frac) \in {Bin(<<0,0,0>>), Bin(<<1,1,1>>)}
        /\ ToUint16(a.frac) % 256 = 0
        /\ (cls.done /\ Sentinel(a)) =>
              /\ cls.is_undefined
              /\ ~cls.is_zero
              /\ ~cls.is_infinity
              /\ ~cls.is_finite

\* Every one of the 20 entries has been classified under the sentinel
\* exponent; here the last-but-one, reported undefined.
C7_Witness ==
    /\ cls.done
    /\ Sentinel(a)
    /\ Len(UndefCatalog) = 20
    /\ a.frac = SPIRIX_UNDEF_SQRT_NEGATIVE
    /\ CatalogIndices(a.frac) = {19}
    /\ cls.is_undefined

\* C9: with any exponent other than the sentinel, every fraction is
\* reported finite and not zero, infinity or undefined.
C9_FinitenessShortcut ==
    (cls.done /\ ~Sentinel(a)) =>
        /\ cls.is_finite
        /\ ~cls.is_zero
        /\ ~cls.is_infinity
        /\ ~cls.is_undefined

\* The Infinity literal with the exponent next to the sentinel has been
\* classified, and is reported finite.
C9_Witness ==
    /\ cls.done
    /\ a = Pair(SPIRIX_INFINITY_FRACTION, SPIRIX_AMBIGUOUS_EXPONENT + 1)
    /\ cls.is_finite

(* ------------------------------------------------------------------ *)
(* Properties of spirix_gpu_safe_divide and the creation helpers       *)
(* (under Spec; the chaining property under SpecChain)                 *)
(* ------------------------------------------------------------------ *)

IsZero(v) == spirix_is_zero(v.frac, v.exp)
IsInfinity(v) == spirix_is_infinity(v.frac, v.exp)
IsUndefined(v) == spirix_is_undefined(v.frac, v.exp)
IsFinite(v) == spirix_is_finite(v.frac, v.exp)

\* The state right after a call of spirix_gpu_safe_divide on a and b.
Divided == op = "spirix_gpu_safe_divide"

\* C2 as stated: after Infinity / Infinity the output fields hold
\* (SPIRIX_UNDEF_TRANSFINITE_DIV_TRANSFINITE, sentinel), whatever they held
\* before, and the pair is reported undefined.
C2_InfDivInfWritesBoth ==
    (Divided /\ IsInfinity(a) /\ IsInfinity(b)) =>
        /\ out = Pair(SPIRIX_UNDEF_TRANSFINITE_DIV_TRANSFINITE, SPIRIX_AMBIGUOUS_EXPONENT)
        /\ IsUndefined(out)

\* C3: after Zero / Zero the output fields hold
\* (SPIRIX_UNDEF_NEGLIGIBLE_DIV_NEGLIGIBLE, sentinel): the 0/0 row was taken,
\* and the result is neither Infinity nor Zero.
C3_ZeroDivZero ==
    (Divided /\ IsZero(a) /\ IsZero(b)) =>
        /\ out = Pair(SPIRIX_UNDEF_NEGLIGIBLE_DIV_NEGLIGIBLE, SPIRIX_AMBIGUOUS_EXPONENT)
        /\ row = RowZeroDivZero
        /\ ~IsInfinity(out)
        /\ ~IsZero(out)

\* Zero / Zero has been divided, left by the 0/0 row and gave the
\* negligible/negligible literal.
C3_Witness ==
    /\ Divided
    /\ IsZero(a)
    /\ IsZero(b)
    /\ row = RowZeroDivZero
    /\ out.frac = SPIRIX_UNDEF_NEGLIGIBLE_DIV_NEGLIGIBLE

\* C4: with exactly one operand Zero, a Zero denominator gives
\* (SPIRIX_INFINITY_FRACTION, sentinel) for every numerator and a Zero
\* numerator gives (SPIRIX_ZERO_FRACTION, sentinel) for every denominator.
C4_OneOperandZero ==
    Divided =>
        /\ (IsZero(b) /\ ~IsZero(a)) =>
              out = Pair(SPIRIX_INFINITY_FRACTION, SPIRIX_AMBIGUOUS_EXPONENT)
        /\ (IsZero(a) /\ ~IsZero(b)) =>
              out = Pair(SPIRIX_ZERO_FRACTION, SPIRIX_AMBIGUOUS_EXPONENT)

\* An Undefined numerator has been divided by Zero and gave Infinity.
C4_Witness ==
    /\ Divided
    /\ IsZero(b)
    /\ IsUndefined(a)
    /\ row = RowDivByZero
    /\ IsInfinity(out)

\* C5: a call whose operands are both not Zero and not both Infinity leaves
\* by no row of the table and changes neither output field nor operand.
C5_DeferralFrame ==
    [][(op' = "spirix_gpu_safe_divide" /\ ~IsZero(a) /\ ~IsZero(b)
            /\ ~(IsInfinity(a) /\ IsInfinity(b)))
        => (row' = RowDeferred /\ out' = out /\ a' = a /\ b' = b)]_vars

\* Infinity has been divided by a finite value: the call deferred.
C5_Witness ==
    /\ Divided
    /\ IsInfinity(a)
    /\ IsFinite(b)
    /\ row = RowDeferred

\* The pair is in exactly the category named: the helper named holds of it
\* and none of the other three does.
Only(k, v) ==
    /\ IsZero(v) <=> (k = "zero")
    /\ IsInfinity(v) <=> (k = "infinity")
    /\ IsUndefined(v) <=> (k = "undefined")
    /\ IsFinite(v) <=> (k = "finite")

\* C8: each creation helper stores its literal and the sentinel exponent,
\* and the pair is in exactly the helper's category; spirix_create_infinity
\* does so for every sign argument.
C8_RoundTrip ==
    /\ op = "spirix_create_zero" =>
          /\ out = Pair(SPIRIX_ZERO_FRACTION, SPIRIX_AMBIGUOUS_EXPONENT)
          /\ Only("zero", out)
    /\ op = "spirix_create_infinity" =>
          /\ out = Pair(SPIRIX_INFINITY_FRACTION, SPIRIX_AMBIGUOUS_EXPONENT)
          /\ Only("infinity", out)
    /\ op = "spirix_create_undefined" =>
          /\ out = Pair(SPIRIX_UNDEF_GENERAL, SPIRIX_AMBIGUOUS_EXPONENT)
          /\ Only("undefined", out)
    /\ op = "spirix_create_undefined_zero_div_zero" =>
          /\ out = Pair(SPIRIX_UNDEF_NEGLIGIBLE_DIV_NEGLIGIBLE, SPIRIX_AMBIGUOUS_EXPONENT)
          /\ Only("undefined", out)
    /\ op = "spirix_create_undefined_inf_minus_inf" =>
          /\ out = Pair(SPIRIX_UNDEF_TRANSFINITE_MINUS_TRANSFINITE, SPIRIX_AMBIGUOUS_EXPONENT)
          /\ Only("undefined", out)
    /\ op = "spirix_create_undefined_inf_times_zero" =>
          /\ out = Pair(SPIRIX_UNDEF_TRANSFINITE_MUL_NEGLIGIBLE, SPIRIX_AMBIGUOUS_EXPONENT)
          /\ Only("undefined", out)

\* spirix_create_infinity has been called with a zero sign argument and
\* its pair is reported infinity.
C8_Witness ==
    /\ op = "spirix_create_infinity"
    /\ sign_arg = 0
    /\ Sentinel(out)
    /\ IsInfinity(out)

\* C10 as stated: in a chain of divisions over Zero, Infinity and earlier
\* results, every result a row of the table wrote has the sentinel exponent,
\* one of the four result literals as fraction, and is not reported finite.
C10_ChainClosure ==
    (Divided /\ Written) =>
        /\ out.exp = SPIRIX_AMBIGUOUS_EXPONENT
        /\ out.frac \in {SPIRIX_ZERO_FRACTION, SPIRIX_INFINITY_FRACTION,
                         SPIRIX_UNDEF_NEGLIGIBLE_DIV_NEGLIGIBLE,
                         SPIRIX_UNDEF_TRANSFINITE_DIV_TRANSFINITE}
        /\ ~IsFinite(out)

====
